---- MODULE Spec2Model ----
(***************************************************************************)
(* Explorer (angr/surveyors/explorer.py): the path classifier filter_path, *)
(* the termination predicate done and the visit counter they share.       *)
(* A path is the record of what filter_path reads from it: the length of   *)
(* its addr_backtrace, whether its last_run is a SimIRSB, the imark        *)
(* addresses of that block, last_run.addr, the answer of detect_loops and  *)
(* an attribute a caller-supplied function inspects.                       *)
(***************************************************************************)
EXTENDS Integers, Sequences, FiniteSets, TLC

\* ---------------------------------------------------------------- bounds
MaxPaths == 2        \* paths handed to filter_path in one run
MaxMinDepth == 1     \* the largest min_depth a caller asks for

\* ------------------------------------------------------- program values
None == -1           \* Python 2 None: "is not None" guards, orders below every int
ClassName == 0       \* the key p.__class__.__name__ (a str, equal to no address)

DefaultMinDepth == 0
DefaultMaxDepth == 100
DefaultMaxRepeats == 10
DefaultNumFind == 1
DefaultNumAvoid == None
DefaultNumDeviate == 1
DefaultNumLoop == None

Addrs == {1, 2}
Keys == Addrs \cup {ClassName}

\* ------------------------------------------------------ caller arguments
IntArg(a) == [type |-> "int", int |-> a, elems |-> {}, fn |-> ""]
TupleArg(s) == [type |-> "tuple", int |-> 0, elems |-> s, fn |-> ""]
FunctionArg(f) == [type |-> "function", int |-> 0, elems |-> {}, fn |-> f]
\* a callable that is no function and no method (a functools.partial, an
\* instance with __call__), and a value that is neither iterable nor callable
PartialArg(f) == [type |-> "partial", int |-> 0, elems |-> {}, fn |-> f]
FloatArg == [type |-> "float", int |-> 0, elems |-> {}, fn |-> ""]

CriterionArgs == {TupleArg({}), IntArg(1), FunctionArg("flagged")}

SetCriterion(s) == [isSet |-> TRUE, addrs |-> s, fn |-> ""]
FunctionCriterion(f) == [isSet |-> FALSE, addrs |-> {}, fn |-> f]

\* what a criterion holds when its conversion raised
TypeError == [isSet |-> FALSE, addrs |-> {}, fn |-> "TypeError"]

\* set(s): the elements of an iterable, TypeError for anything else
set(s) == IF s.type = "tuple" THEN SetCriterion(s.elems) ELSE TypeError

arg_to_set(s) ==
    IF s.type = "int" THEN SetCriterion({s.int})
    ELSE IF s.type = "function" THEN FunctionCriterion(s.fn)
    ELSE set(s)

Keywords(md, xd, mr, nf, na, nd, nl, om) ==
    [min_depth |-> md, max_depth |-> xd, max_repeats |-> mr, num_find |-> nf,
     num_avoid |-> na, num_deviate |-> nd, num_loop |-> nl, omitted |-> om]

DefaultKeywords ==
    Keywords(DefaultMinDepth, DefaultMaxDepth, DefaultMaxRepeats, DefaultNumFind,
             DefaultNumAvoid, DefaultNumDeviate, DefaultNumLoop, TRUE)

\* a caller that raises the depth floor and asks for two found paths
DeepKeywords ==
    Keywords(MaxMinDepth, DefaultMaxDepth, 1, 2, None, None, None, FALSE)

\* a caller whose max_depth lies below the floor: every path past the gate is
\* deeper than max_depth
CappedKeywords ==
    Keywords(MaxMinDepth, MaxMinDepth - 1, 1, 2, None, None, None, FALSE)

NumArgs == {None, 1}

\* callers that set the four target counts
ThresholdKeywords ==
    {Keywords(DefaultMinDepth, DefaultMaxDepth, 1, nf, na, nd, nl, FALSE) :
        nf \in NumArgs \cup {2}, na \in NumArgs, nd \in NumArgs, nl \in NumArgs}

Call_args(f, a, r, k) == [find |-> f, avoid |-> a, restrict |-> r, keywords |-> k]

DefaultCall == Call_args(TupleArg({}), TupleArg({}), TupleArg({}), DefaultKeywords)

\* criteria that are no int, no function and no iterable, one at a time
OtherArgs == {PartialArg("flagged"), FloatArg}

OtherCalls ==
    {[DefaultCall EXCEPT ![c] = s] : c \in {"find", "avoid", "restrict"}, s \in OtherArgs}

\* the constructor calls explored: every shape of the three criteria with the
\* keywords left out, every target-count setting and the raised floor under
\* criteria that can fill all four buckets, and the criteria of other types
Constructions ==
    {Call_args(f, a, r, DefaultKeywords) :
        f \in CriterionArgs, a \in CriterionArgs, r \in CriterionArgs}
    \cup {Call_args(IntArg(1), FunctionArg("flagged"), FunctionArg("in_block"), k) :
            k \in ThresholdKeywords \cup {DeepKeywords, CappedKeywords}}
    \cup OtherCalls

\* ------------------------------------------------------------------ paths
Path(i, d, b, m, a, r, f) ==
    [id |-> i, depth |-> d, irsb |-> b, imarks |-> m, addr |-> a, repeats |-> r,
     flag |-> f]

NoPath == Path(0, 0, FALSE, {}, 0, 0, FALSE)

SetMin(s) == CHOOSE x \in s : \A y \in s : x <= y

LastRuns ==
    {[irsb |-> TRUE, imarks |-> m, addr |-> SetMin(m)] : m \in (SUBSET Addrs) \ {{}}}
    \cup {[irsb |-> FALSE, imarks |-> {}, addr |-> a] : a \in Addrs}

VARIABLES
    call, find, avoid, restrict, max_repeats, max_depth, min_depth,
    num_find, num_avoid, num_deviate, num_loop, omitted,
    instruction_counter, found, avoided, deviating, looping,
    active, log, last, threads, pending, paths

\* call: the arguments the constructor was called with
config == <<call, find, avoid, restrict, max_repeats, max_depth, min_depth,
            num_find, num_avoid, num_deviate, num_loop, omitted>>
\* pending: the successors the engine has yielded and filter_path has not seen
\* yet; paths: for every path of the run its depth and whether it was stepped
surveyor == <<pending, paths>>
vars == <<config, instruction_counter, found, avoided, deviating, looping,
          active, log, last, threads, surveyor>>

\* threads: where each worker of the surveyor is inside its filter_path call
\* (todo: the addresses of imark_set not yet counted; key, reg: the entry and
\* the value the worker has read for the increment in progress)
Workers == 1..MaxPaths
Thread(pc, p, todo, key, reg) ==
    [pc |-> pc, p |-> p, todo |-> todo, key |-> key, reg |-> reg]
IdleThread == Thread("idle", NoPath, {}, 0, 0)

\* __init__ returned: none of the three conversions raised
constructed == TypeError \notin {find, avoid, restrict}

\* len(p.addr_backtrace): the lengths around the floor it is compared with
Backtraces == {d \in {min_depth - 1, min_depth} : d >= 0}

\* detect_loops(self._max_repeats): the answers around the threshold asked about
LoopAnswers == {r \in {max_repeats - 1, max_repeats, max_repeats + 1} : r >= 0}

NewPaths ==
    {Path(Len(log) + 1, d, lr.irsb, lr.imarks, lr.addr, r, f) :
        d \in Backtraces, lr \in LastRuns, r \in LoopAnswers, f \in BOOLEAN}

\* -------------------------------------------------------------- __init__
\* last: the most recent operation on the Explorer and what it returned
\* (other and diff: the second argument and the value of a path_comparator call)
Op(o, p, r, e) ==
    [op |-> o, p |-> p, ret |-> r, evals |-> e, other |-> NoPath, diff |-> 0]

Construct(c) ==
    LET k == c.keywords IN
    /\ call = c
    /\ instruction_counter = [key \in Keys |-> 0]
    /\ find = arg_to_set(c.find)
    /\ avoid = arg_to_set(c.avoid)
    /\ restrict = arg_to_set(c.restrict)
    /\ max_repeats = k.max_repeats
    /\ max_depth = k.max_depth
    /\ min_depth = k.min_depth
    /\ found = <<>>
    /\ avoided = <<>>
    /\ deviating = <<>>
    /\ looping = <<>>
    /\ num_find = k.num_find
    /\ num_avoid = k.num_avoid
    /\ num_deviate = k.num_deviate
    /\ num_loop = k.num_loop
    /\ omitted = k.omitted
    /\ active = {0}
    /\ log = <<>>
    /\ last = Op("__init__", NoPath, constructed, {})
    /\ threads = [t \in Workers |-> IdleThread]
    /\ pending = <<>>
    /\ paths = [i \in {0} |-> [depth |-> 0, stepped |-> FALSE]]

Init == \E c \in Constructions : Construct(c)

\* ------------------------------------------------------------------ done
done_unemptied ==
    IF num_find # None /\ Len(found) >= num_find THEN TRUE
    ELSE IF num_avoid # None /\ Len(avoided) >= num_avoid THEN TRUE
    ELSE IF num_deviate # None /\ Len(deviating) >= num_deviate THEN TRUE
    ELSE IF num_loop # None /\ Len(looping) >= num_loop THEN TRUE
    ELSE FALSE

done_strict ==
    IF Cardinality(active) = 0 THEN TRUE
    ELSE IF num_find # None /\ Len(found) > num_find THEN TRUE
    ELSE IF num_avoid # None /\ Len(avoided) > num_avoid THEN TRUE
    ELSE IF num_deviate # None /\ Len(deviating) > num_deviate THEN TRUE
    ELSE IF num_loop # None /\ Len(looping) > num_loop THEN TRUE
    ELSE FALSE

done_exact ==
    IF Cardinality(active) = 0 THEN TRUE
    ELSE IF num_find # None /\ Len(found) = num_find THEN TRUE
    ELSE IF num_avoid # None /\ Len(avoided) = num_avoid THEN TRUE
    ELSE IF num_deviate # None /\ Len(deviating) = num_deviate THEN TRUE
    ELSE IF num_loop # None /\ Len(looping) = num_loop THEN TRUE
    ELSE FALSE

done ==
    IF Cardinality(active) = 0 THEN TRUE
    ELSE IF num_find # None /\ Len(found) >= num_find THEN TRUE
    ELSE IF num_avoid # None /\ Len(avoided) >= num_avoid THEN TRUE
    ELSE IF num_deviate # None /\ Len(deviating) >= num_deviate THEN TRUE
    ELSE IF num_loop # None /\ Len(looping) >= num_loop THEN TRUE
    ELSE FALSE

\* ------------------------------------------------------- path_comparator
\* a path of which only last_addr is read
Located(a) == Path(0, 0, FALSE, {}, a, 0, FALSE)

path_comparator_reversed(x, y) ==
    instruction_counter[y.addr] - instruction_counter[x.addr]

path_comparator(x, y) ==
    instruction_counter[x.addr] - instruction_counter[y.addr]

\* ---------------------------------------------------------------- _match
\* the caller's functions: one reads an attribute of the path, one the type
\* of its last run
Call(f, path) ==
    IF f = "flagged" THEN path.flag
    ELSE IF f = "in_block" THEN path.irsb
    ELSE FALSE

match_subset(criteria, path, imark_set) ==
    IF criteria.isSet
    THEN imark_set # {} /\ imark_set \subseteq criteria.addrs
    ELSE Call(criteria.fn, path)

match(criteria, path, imark_set) ==
    IF criteria.isSet
    THEN LET intersection == imark_set \cap criteria.addrs
         IN  Cardinality(intersection) > 0
    ELSE Call(criteria.fn, path)

\* the caller-supplied function a _match call invokes, if any
Invoked(criteria, name) == IF criteria.isSet THEN {} ELSE {name}

\* ----------------------------------------------------------- filter_path
below_min_depth_inverted(p) == p.depth > min_depth

below_min_depth(p) == p.depth < min_depth

imark_set_of(p) == IF p.irsb THEN p.imarks ELSE {p.addr, ClassName}

counted(imark_set) ==
    [key \in Keys |->
        IF key \in imark_set THEN instruction_counter[key] + 1
        ELSE instruction_counter[key]]

append_dropped(list, p) == list

append_replaced(list, p) == <<p.id>>

append(list, p) == Append(list, p.id)

restrict_checked_always == TRUE

restrict_checked == ~restrict.isSet \/ Cardinality(restrict.addrs) > 0

is_looping_strict(p) == p.repeats > max_repeats

is_looping_counted(p) == instruction_counter[p.addr] >= max_repeats

is_looping_or_deep(p) == p.repeats >= max_repeats \/ p.depth > max_depth

is_looping(p) == p.repeats >= max_repeats

Outcome(c, fo, av, de, lo, r, e) ==
    [counter |-> c, found |-> fo, avoided |-> av, deviating |-> de, looping |-> lo,
     ret |-> r, evals |-> e]

filter_path_find_first(p) ==
    IF below_min_depth(p)
    THEN Outcome(instruction_counter, found, avoided, deviating, looping, TRUE, {})
    ELSE
    LET imark_set == imark_set_of(p)
        c == counted(imark_set)
        e1 == Invoked(find, "find")
        e2 == e1 \cup Invoked(avoid, "avoid")
        e3 == IF restrict_checked THEN e2 \cup Invoked(restrict, "restrict") ELSE e2
        e4 == e3 \cup {"detect_loops"}
    IN  IF match(find, p, imark_set)
        THEN Outcome(c, append(found, p), avoided, deviating, looping, FALSE, e1)
        ELSE IF match(avoid, p, imark_set)
        THEN Outcome(c, found, append(avoided, p), deviating, looping, FALSE, e2)
        ELSE IF restrict_checked /\ ~match(restrict, p, imark_set)
        THEN Outcome(c, found, avoided, append(deviating, p), looping, FALSE, e3)
        ELSE IF is_looping(p)
        THEN Outcome(c, found, avoided, deviating, append(looping, p), FALSE, e4)
        ELSE Outcome(c, found, avoided, deviating, looping, TRUE, e4)

filter_path_restrict_first(p) ==
    IF below_min_depth(p)
    THEN Outcome(instruction_counter, found, avoided, deviating, looping, TRUE, {})
    ELSE
    LET imark_set == imark_set_of(p)
        c == counted(imark_set)
        e1 == Invoked(avoid, "avoid")
        e2 == IF restrict_checked THEN e1 \cup Invoked(restrict, "restrict") ELSE e1
        e3 == e2 \cup Invoked(find, "find")
        e4 == e3 \cup {"detect_loops"}
    IN  IF match(avoid, p, imark_set)
        THEN Outcome(c, found, append(avoided, p), deviating, looping, FALSE, e1)
        ELSE IF restrict_checked /\ ~match(restrict, p, imark_set)
        THEN Outcome(c, found, avoided, append(deviating, p), looping, FALSE, e2)
        ELSE IF match(find, p, imark_set)
        THEN Outcome(c, append(found, p), avoided, deviating, looping, FALSE, e3)
        ELSE IF is_looping(p)
        THEN Outcome(c, found, avoided, deviating, append(looping, p), FALSE, e4)
        ELSE Outcome(c, found, avoided, deviating, looping, TRUE, e4)

filter_path_no_return(p) ==
    IF below_min_depth(p)
    THEN Outcome(instruction_counter, found, avoided, deviating, looping, TRUE, {})
    ELSE
    LET imark_set == imark_set_of(p)
        c == counted(imark_set)
        a == IF match(avoid, p, imark_set) THEN append(avoided, p) ELSE avoided
        e2 == Invoked(avoid, "avoid") \cup Invoked(find, "find")
        e3 == IF restrict_checked THEN e2 \cup Invoked(restrict, "restrict") ELSE e2
        e4 == e3 \cup {"detect_loops"}
    IN  IF match(find, p, imark_set)
        THEN Outcome(c, append(found, p), a, deviating, looping, FALSE, e2)
        ELSE IF restrict_checked /\ ~match(restrict, p, imark_set)
        THEN Outcome(c, found, a, append(deviating, p), looping, FALSE, e3)
        ELSE IF is_looping(p)
        THEN Outcome(c, found, a, deviating, append(looping, p), FALSE, e4)
        ELSE Outcome(c, found, a, deviating, looping, TRUE, e4)

\* what one call leaves behind: the counter, the four lists, the value returned
\* and the caller-supplied functions and path queries it invoked
filter_path(p) ==
    IF below_min_depth(p)
    THEN Outcome(instruction_counter, found, avoided, deviating, looping, TRUE, {})
    ELSE
    LET imark_set == imark_set_of(p)
        c == counted(imark_set)
        e1 == Invoked(avoid, "avoid")
        e2 == e1 \cup Invoked(find, "find")
        e3 == IF restrict_checked THEN e2 \cup Invoked(restrict, "restrict") ELSE e2
        e4 == e3 \cup {"detect_loops"}
    IN  IF match(avoid, p, imark_set)
        THEN Outcome(c, found, append(avoided, p), deviating, looping, FALSE, e1)
        ELSE IF match(find, p, imark_set)
        THEN Outcome(c, append(found, p), avoided, deviating, looping, FALSE, e2)
        ELSE IF restrict_checked /\ ~match(restrict, p, imark_set)
        THEN Outcome(c, found, avoided, append(deviating, p), looping, FALSE, e3)
        ELSE IF is_looping(p)
        THEN Outcome(c, found, avoided, deviating, append(looping, p), FALSE, e4)
        ELSE Outcome(c, found, avoided, deviating, looping, TRUE, e4)

\* ---------------------------------------------------------------- actions
\* filter_path on a freshly stepped path; the scheduler keeps the path in the
\* active set when the call returns True
Filter(p) ==
    /\ constructed
    /\ Len(log) < MaxPaths
    /\ LET o == filter_path(p)
       IN  /\ instruction_counter' = o.counter
           /\ found' = o.found
           /\ avoided' = o.avoided
           /\ deviating' = o.deviating
           /\ looping' = o.looping
           /\ active' = IF o.ret THEN active \cup {p.id} ELSE active
           /\ log' = Append(log, [short |-> p.depth < min_depth, ret |-> o.ret])
           /\ last' = Op("filter_path", p, o.ret, o.evals)
    /\ UNCHANGED <<config, threads>>

FilterPath(p) == Filter(p) /\ UNCHANGED surveyor

\* the surveyor hands filter_path one path at a time and reads the Explorer
\* between calls: no worker is inside a call
serialised_never == TRUE

serialised == \A t \in Workers : threads[t].pc \in {"idle", "returned"}

\* the scheduler reads the done property
ReadDone ==
    /\ constructed
    /\ serialised
    /\ last' = Op("done", NoPath, done, {})
    /\ UNCHANGED <<config, instruction_counter, found, avoided, deviating, looping,
                   active, log, threads, surveyor>>

\* the scheduler compares two paths to order the active list
Compare(x, y) ==
    /\ constructed
    /\ last' = [Op("path_comparator", x, TRUE, {}) EXCEPT
                    !.other = y, !.diff = path_comparator(x, y)]
    /\ UNCHANGED <<config, instruction_counter, found, avoided, deviating, looping,
                   active, log, threads, surveyor>>

\* the scheduler drops a path from the active set (it was stepped, or it ended)
Retire(i) ==
    /\ constructed
    /\ i \in active
    /\ active' = active \ {i}
    /\ last' = Op("retire", NoPath, TRUE, {})
    /\ UNCHANGED <<config, instruction_counter, found, avoided, deviating, looping,
                   log, threads, surveyor>>

Next ==
    \/ \E p \in NewPaths : FilterPath(p)
    \/ ReadDone
    \/ \E i \in active : Retire(i)

Spec == Init /\ [][Next]_vars

\* ------------------------------------------ filter_path, statement by statement
\* the paths a step yields at depth d: flag unset
SteppedPaths(i, d) ==
    {Path(i, d, lr.irsb, lr.imarks, lr.addr, r, FALSE) :
        lr \in LastRuns, r \in {max_repeats - 1, max_repeats}}

\* the paths the workers bring: at the floor
WorkerPaths(t) == SteppedPaths(t, min_depth)

\* lines 111-115: the floor test and the building of imark_set
Begin(t, p) ==
    /\ constructed
    /\ serialised
    /\ threads[t].pc = "idle"
    /\ threads' = [threads EXCEPT ![t] =
            Thread("count", p, IF below_min_depth(p) THEN {} ELSE imark_set_of(p), 0, 0)]
    /\ UNCHANGED <<config, instruction_counter, found, avoided, deviating, looping,
                   active, log, last, surveyor>>

\* line 118, first half of +=: the entry of the next address is read
Load(t) ==
    /\ threads[t].pc = "count"
    /\ \E i \in threads[t].todo :
          threads' = [threads EXCEPT ![t].pc = "store", ![t].key = i,
                                     ![t].reg = instruction_counter[i]]
    /\ UNCHANGED <<config, instruction_counter, found, avoided, deviating, looping,
                   active, log, last, surveyor>>

\* line 118, second half of +=: the value read, plus one, is stored
Store(t) ==
    /\ threads[t].pc = "store"
    /\ instruction_counter' =
          [instruction_counter EXCEPT ![threads[t].key] = threads[t].reg + 1]
    /\ threads' = [threads EXCEPT ![t].pc = "count",
                                  ![t].todo = threads[t].todo \ {threads[t].key}]
    /\ UNCHANGED <<config, found, avoided, deviating, looping, active, log, last,
                   surveyor>>

\* lines 121-142: the four tests, the append and the return
Finish(t) ==
    /\ threads[t].pc = "count"
    /\ threads[t].todo = {}
    /\ LET p == threads[t].p
           o == filter_path(p)
       IN  /\ found' = o.found
           /\ avoided' = o.avoided
           /\ deviating' = o.deviating
           /\ looping' = o.looping
           /\ active' = IF o.ret THEN active \cup {p.id} ELSE active
           /\ log' = Append(log, [short |-> p.depth < min_depth, ret |-> o.ret])
           /\ last' = Op("filter_path", p, o.ret, o.evals)
    /\ threads' = [threads EXCEPT ![t].pc = "returned"]
    /\ UNCHANGED <<config, instruction_counter, surveyor>>

ThreadCalls ==
    {Call_args(IntArg(1), TupleArg({}), r, DefaultKeywords) :
        r \in {TupleArg({}), IntArg(1)}}

InitThreads == \E c \in ThreadCalls : Construct(c)

NextThreads ==
    \/ \E t \in Workers :
          \/ \E p \in WorkerPaths(t) : Begin(t, p)
          \/ Load(t)
          \/ Store(t)
          \/ Finish(t)
    \/ ReadDone

SpecThreads == InitThreads /\ [][NextThreads]_vars

\* ------------------------------------------------------ the surveyor's run
\* how many successors the engine may yield for path i: none at max_depth, and
\* no more than the run has room for
Room == MaxPaths - Len(log)
Yield(i) == IF paths[i].depth >= max_depth THEN 0 ELSE Room

\* while done is False the scheduler takes an active path and has it stepped;
\* its successors wait for filter_path
StepPath(i, n) ==
    /\ constructed
    /\ serialised
    /\ ~done
    /\ pending = <<>>
    /\ i \in active
    /\ n \in 0..Yield(i)
    /\ active' = active \ {i}
    /\ \E succ \in [1..n -> SteppedPaths(0, paths[i].depth + 1)] :
          /\ pending' = [j \in 1..n |-> [succ[j] EXCEPT !.id = Len(log) + j]]
          /\ paths' = [j \in DOMAIN paths \cup {Len(log) + k : k \in 1..n} |->
                          IF j = i THEN [paths[i] EXCEPT !.stepped = TRUE]
                          ELSE IF j \in DOMAIN paths THEN paths[j]
                          ELSE [depth |-> paths[i].depth + 1, stepped |-> FALSE]]
    /\ UNCHANGED <<config, instruction_counter, found, avoided, deviating, looping,
                   log, last, threads>>

\* the scheduler feeds the next successor to filter_path
Classify ==
    /\ pending # <<>>
    /\ Filter(Head(pending))
    /\ pending' = Tail(pending)
    /\ UNCHANGED paths

\* callers with a small max_depth, with and without a target count
RunKeywords ==
    {Keywords(DefaultMinDepth, xd, 1, nf, None, None, None, FALSE) :
        xd \in {MaxMinDepth, MaxMinDepth + 1}, nf \in NumArgs}

RunCalls == {Call_args(IntArg(1), TupleArg({}), IntArg(2), k) : k \in RunKeywords}

InitRun == \E c \in RunCalls : Construct(c)

NextRun ==
    \/ \E i \in active, n \in 0..MaxPaths : StepPath(i, n)
    \/ Classify

SpecRun == InitRun /\ [][NextRun]_vars /\ WF_vars(NextRun)

\* the scheduler orders paths by path_comparator while filter_path counts
InitOrder == Construct(DefaultCall)

NextOrder ==
    \/ \E p \in NewPaths : FilterPath(p)
    \/ \E a \in Addrs, b \in Addrs : Compare(Located(a), Located(b))

SpecOrder == InitOrder /\ [][NextOrder]_vars

\* ------------------------------------------------------------- properties
InList(list, p) == \E i \in 1..Len(list) : list[i] = p.id
Filed(p) == InList(found, p) \/ InList(avoided, p) \/ InList(deviating, p)
            \/ InList(looping, p)

\* the last operation was a filter_path call that got past the min_depth gate
Classified == last.op = "filter_path" /\ last.p.depth >= min_depth
MatchesAvoid == match(avoid, last.p, imark_set_of(last.p))
MatchesFind == match(find, last.p, imark_set_of(last.p))
\* the path fails a restrict criterion that is a function or a non-empty set
ViolatesRestrict ==
    /\ ~(restrict.isSet /\ restrict.addrs = {})
    /\ ~match(restrict, last.p, imark_set_of(last.p))
\* this step is a filter_path call (each call logs one entry)
CallStep == Len(log') = Len(log) + 1

\* C1: a path at depth >= min_depth that matches both the avoid and the find
\* criterion is filed in avoided and not in found, whatever the shape of the
\* criteria and whatever the state of the Explorer.
C1_AvoidBeforeFind ==
    (Classified /\ MatchesAvoid /\ MatchesFind)
        => (InList(avoided, last.p) /\ ~InList(found, last.p) /\ ~last.ret)

\* scenario B: avoid and find are the same address set and the step covers it
C1_Witness ==
    /\ Classified /\ MatchesAvoid /\ MatchesFind
    /\ avoid.isSet /\ find.isSet /\ avoid.addrs = find.addrs
    /\ InList(avoided, last.p)

\* C2: done returns True exactly when the active list is empty or a target count
\* that is not None is reached by its list; with num_find = 2, one found path
\* and a non-empty active list it is False, and with two found paths it is True.
BoundedReached(num, list) == num # None /\ Len(list) >= num
ThresholdReached ==
    \/ BoundedReached(num_find, found)
    \/ BoundedReached(num_avoid, avoided)
    \/ BoundedReached(num_deviate, deviating)
    \/ BoundedReached(num_loop, looping)
OthersUnreached ==
    /\ ~BoundedReached(num_avoid, avoided)
    /\ ~BoundedReached(num_deviate, deviating)
    /\ ~BoundedReached(num_loop, looping)

C2_DoneIff ==
    last.op = "done" =>
        /\ last.ret <=> (active = {} \/ ThresholdReached)
        /\ (num_find = 2 /\ Len(found) = 1 /\ active # {} /\ OthersUnreached)
              => ~last.ret
        /\ (num_find = 2 /\ Len(found) = 2) => last.ret

\* scenario F after the second found path
C2_Witness ==
    /\ last.op = "done" /\ last.ret
    /\ num_find = 2 /\ Len(found) = 2 /\ active # {} /\ OthersUnreached

\* C3: with the keywords left to their defaults, done stays False while the
\* active list is non-empty and fewer than num_find paths are found, however many
\* paths are deviating, avoided or looping.
C3_DefaultsUnbounded ==
    (last.op = "done" /\ omitted /\ active # {} /\ Len(found) < num_find)
        => ~last.ret

\* C4: a filter_path call on a path with len(addr_backtrace) < min_depth returns
\* True, appends to no list, changes no counter entry and invokes neither a
\* criterion function nor detect_loops.
C4_MinDepthExempt ==
    [][(CallStep /\ last'.p.depth < min_depth) =>
          /\ last'.ret /\ last'.p.id \in active'
          /\ <<found, avoided, deviating, looping>>' =
                <<found, avoided, deviating, looping>>
          /\ instruction_counter' = instruction_counter
          /\ last'.evals = {}]_vars

\* scenario E with a path that matches avoid and find and fails restrict
C4_Witness ==
    /\ last.op = "filter_path" /\ last.p.depth < min_depth
    /\ MatchesAvoid /\ MatchesFind /\ ViolatesRestrict
    /\ last.ret /\ ~Filed(last.p) /\ last.p.id \in active

\* C5: of the N calls that got past the min_depth gate, each either appended its
\* path to exactly one of the four lists or returned True, so the four lengths
\* plus the number of True returns is N, and no path is in two lists or twice in
\* one.
Gated == {i \in 1..Len(log) : ~log[i].short}
Kept == {i \in Gated : log[i].ret}
AllFiled == found \o avoided \o deviating \o looping

C5_Conservation ==
    /\ Len(AllFiled) + Cardinality(Kept) = Cardinality(Gated)
    /\ \A i, j \in 1..Len(AllFiled) : AllFiled[i] = AllFiled[j] => i = j
    /\ \A i \in 1..Len(AllFiled) : AllFiled[i] \in Gated \ Kept

C5_Witness ==
    /\ Cardinality(Gated) = 2 /\ Cardinality(Kept) = 1 /\ Len(avoided) = 1

\* C6: once done is True because a target count is reached, it is True after
\* every later filter_path call and every later change of the active list.
C6_DoneMonotonic == [][(done /\ ThresholdReached) => done']_vars

\* a further path is classified after the target count was reached
C6_Witness ==
    /\ last.op = "filter_path" /\ Classified
    /\ num_find = 1 /\ Len(found) = 2 /\ active # {} /\ done

\* C7: with restrict an empty address set no call ever appends to deviating; a
\* restrict function is invoked by every call that gets as far as the restrict
\* check.
C7_RestrictVacuity ==
    /\ (restrict.isSet /\ restrict.addrs = {}) => deviating = <<>>
    /\ (Classified /\ ~restrict.isSet /\ ~MatchesAvoid /\ ~MatchesFind)
          => "restrict" \in last.evals

C7_Witness ==
    /\ Classified /\ restrict.isSet /\ restrict.addrs = {}
    /\ ~MatchesAvoid /\ ~MatchesFind /\ last.ret

\* C8: a path past the gate that matches neither avoid nor find and does not
\* fail a non-trivial restrict is filed in looping exactly when detect_loops
\* answers >= max_repeats, and otherwise stays active.
C8_LoopThreshold ==
    (Classified /\ ~MatchesAvoid /\ ~MatchesFind /\ ~ViolatesRestrict) =>
        /\ InList(looping, last.p) <=> last.p.repeats >= max_repeats
        /\ last.p.repeats < max_repeats =>
              (last.ret /\ ~Filed(last.p) /\ last.p.id \in active)
        /\ "detect_loops" \in last.evals

\* scenario D: the answer equals max_repeats
C8_Witness ==
    /\ Classified /\ ~MatchesAvoid /\ ~MatchesFind /\ ~ViolatesRestrict
    /\ last.p.repeats = max_repeats /\ InList(looping, last.p)

\* C9: a call that gets past the gate adds exactly 1 to the counter entry of
\* every address of the step (the imark addresses of a block, the one address of
\* any other run) and changes no other entry, also when the path is then filed.
stepAddresses(p) == IF p.irsb THEN p.imarks ELSE {p.addr}

C9_RecordStepAddresses ==
    [][(CallStep /\ last'.p.depth >= min_depth) =>
          \A key \in Keys :
              instruction_counter'[key] =
                  IF key \in stepAddresses(last'.p)
                  THEN instruction_counter[key] + 1
                  ELSE instruction_counter[key]]_vars

\* C10: for a path whose last run is not a block, exactly one counter entry
\* changes, that of last_run.addr, and the class name is no member of the set
\* counted and matched.
C10_AtomicSingleton ==
    [][(CallStep /\ last'.p.depth >= min_depth /\ ~last'.p.irsb) =>
          /\ {key \in Keys : instruction_counter'[key] # instruction_counter[key]}
                = {last'.p.addr}
          /\ ClassName \notin imark_set_of(last'.p)]_vars

\* C12: path_comparator(x, y) is negative, positive or zero exactly as the count
\* of x's last address is below, above or equal to that of y's, an address never
\* counted counting as 0, and the call changes neither the counter nor a list.
Before == last.diff < 0
After == last.diff > 0
Get(address) == instruction_counter[address]

C12_ComparatorOrder ==
    [][(last'.op = "path_comparator") =>
          /\ Before' <=> Get(last'.p.addr) < Get(last'.other.addr)
          /\ After' <=> Get(last'.p.addr) > Get(last'.other.addr)
          /\ (~Before' /\ ~After') <=> Get(last'.p.addr) = Get(last'.other.addr)
          /\ instruction_counter' = instruction_counter
          /\ <<found, avoided, deviating, looping, active>>' =
                <<found, avoided, deviating, looping, active>>]_vars

\* a never-counted address is ordered before a counted one
C12_Witness ==
    /\ last.op = "path_comparator" /\ Before
    /\ Get(last.p.addr) = 0 /\ Get(last.other.addr) > 0

\* C14: a path past the gate that does not match avoid is filed in found when it
\* matches find, also when it fails a non-trivial restrict and loops; when it
\* does not match find and fails a non-trivial restrict it is filed in deviating,
\* also when it loops.
C14_FindRestrictLoopOrder ==
    /\ (Classified /\ ~MatchesAvoid /\ MatchesFind) =>
          /\ InList(found, last.p)
          /\ ~InList(deviating, last.p) /\ ~InList(looping, last.p)
    /\ (Classified /\ ~MatchesAvoid /\ ~MatchesFind /\ ViolatesRestrict) =>
          /\ InList(deviating, last.p)
          /\ ~InList(looping, last.p)

\* a found path that fails restrict and loops
C14_Witness ==
    /\ Classified /\ ~MatchesAvoid /\ MatchesFind /\ ViolatesRestrict
    /\ last.p.repeats >= max_repeats /\ InList(found, last.p)

\* C15: an address-set criterion matches exactly when the step's addresses and
\* the set share an address, a function criterion exactly when the function
\* returns True for the path, whatever the step's addresses; the matching itself
\* changes no list and no counter entry (a call changes the counter by the
\* recording alone and the lists by at most the one append of its path).
Matches(criterion, path) ==
    IF criterion.isSet
    THEN stepAddresses(path) \cap criterion.addrs # {}
    ELSE Call(criterion.fn, path)

AtMostAppended(list, after, p) == after = list \/ after = Append(list, p.id)

C15_MatchSemantics ==
    [][(CallStep /\ last'.p.depth >= min_depth) =>
          /\ InList(avoided', last'.p) <=> Matches(avoid, last'.p)
          /\ ~Matches(avoid, last'.p) =>
                (InList(found', last'.p) <=> Matches(find, last'.p))
          /\ (~Matches(avoid, last'.p) /\ ~Matches(find, last'.p)
                /\ ~(restrict.isSet /\ restrict.addrs = {})) =>
                (InList(deviating', last'.p) <=> ~Matches(restrict, last'.p))
          /\ AtMostAppended(found, found', last'.p)
          /\ AtMostAppended(avoided, avoided', last'.p)
          /\ AtMostAppended(deviating, deviating', last'.p)
          /\ AtMostAppended(looping, looping', last'.p)
          /\ instruction_counter' = counted(imark_set_of(last'.p))]_vars

\* scenario A: find = {1}, the step covers {1, 2}
C15_Witness ==
    /\ Classified /\ find = SetCriterion({1}) /\ last.p.irsb
    /\ last.p.imarks = {1, 2} /\ InList(found, last.p)

\* C16: the four lists are append-only: the earlier contents of each stay a
\* prefix of the later ones, a filed path is in no second list and never in the
\* active list.
IsPrefix(s, t) == Len(s) <= Len(t) /\ \A i \in 1..Len(s) : s[i] = t[i]
Ids(list) == {list[i] : i \in 1..Len(list)}

C16_AppendOnly ==
    [][/\ IsPrefix(found, found') /\ IsPrefix(avoided, avoided')
       /\ IsPrefix(deviating, deviating') /\ IsPrefix(looping, looping')
       /\ \A i \in Ids(AllFiled) :
             /\ i \notin active'
             /\ Cardinality({l \in {"f", "a", "d", "l"} :
                    \/ l = "f" /\ i \in Ids(found')
                    \/ l = "a" /\ i \in Ids(avoided')
                    \/ l = "d" /\ i \in Ids(deviating')
                    \/ l = "l" /\ i \in Ids(looping')}) = 1]_vars

\* a list that grew twice, with another call's path still active
C16_Witness == Len(found) = 2 /\ found[1] = 1 /\ active # {}

\* C17: a filter_path call that returns True leaves the four lists unchanged; one
\* that returns False appends its path once to exactly one list, the one of the
\* test that ended the call, and leaves the other three unchanged; reading done
\* changes no list, no counter entry and not the active list.
Lists == <<found, avoided, deviating, looping>>
Grown(list, after, p) == after = Append(list, p.id)

C17_Frame ==
    [][/\ (CallStep /\ last'.ret) => Lists' = Lists
       /\ (CallStep /\ ~last'.ret) =>
             \/ /\ Grown(avoided, avoided', last'.p)
                /\ Matches(avoid, last'.p)
                /\ <<found, deviating, looping>>' = <<found, deviating, looping>>
             \/ /\ Grown(found, found', last'.p)
                /\ Matches(find, last'.p)
                /\ <<avoided, deviating, looping>>' = <<avoided, deviating, looping>>
             \/ /\ Grown(deviating, deviating', last'.p)
                /\ ~Matches(restrict, last'.p)
                /\ <<found, avoided, looping>>' = <<found, avoided, looping>>
             \/ /\ Grown(looping, looping', last'.p)
                /\ last'.p.repeats >= max_repeats
                /\ <<found, avoided, deviating>>' = <<found, avoided, deviating>>
       /\ (last'.op = "done") =>
             /\ Lists' = Lists
             /\ instruction_counter' = instruction_counter
             /\ active' = active]_vars

\* a path that matches avoid and find is filed once, after an earlier call
C17_Witness ==
    /\ Classified /\ ~last.ret /\ Len(log) = 2
    /\ MatchesAvoid /\ MatchesFind /\ Len(avoided) = 1 /\ found = <<>>

\* C18: what filter_path does with a path and what done returns are functions of
\* the path, the configuration, the lists and the active list alone: the counter
\* has no part in either.
Disposition(p) ==
    IF p.depth < min_depth THEN "Active"
    ELSE IF Matches(avoid, p) THEN "Avoided"
    ELSE IF Matches(find, p) THEN "Found"
    ELSE IF ~(restrict.isSet /\ restrict.addrs = {}) /\ ~Matches(restrict, p)
    THEN "Deviating"
    ELSE IF p.repeats >= max_repeats THEN "Looping"
    ELSE "Active"

Observed ==
    IF last.ret THEN "Active"
    ELSE IF InList(avoided, last.p) THEN "Avoided"
    ELSE IF InList(found, last.p) THEN "Found"
    ELSE IF InList(deviating, last.p) THEN "Deviating"
    ELSE IF InList(looping, last.p) THEN "Looping"
    ELSE "Lost"

C18_CounterIndependent ==
    /\ last.op = "filter_path" => Observed = Disposition(last.p)
    /\ last.op = "done" => (last.ret <=> (active = {} \/ ThresholdReached))

\* a path stays active although its address was counted before
C18_Witness ==
    /\ Classified /\ last.ret /\ Len(log) = 2
    /\ instruction_counter[last.p.addr] = 2

\* C19: max_depth is only stored: a path deeper than max_depth that matches
\* neither avoid nor find, passes restrict and does not loop stays active, and
\* done is True only for an empty active list or a reached target count.
C19_MaxDepthUnused ==
    /\ (Classified /\ last.p.depth > max_depth /\ ~MatchesAvoid /\ ~MatchesFind
          /\ ~ViolatesRestrict /\ last.p.repeats < max_repeats) =>
          (last.ret /\ ~Filed(last.p) /\ last.p.id \in active)
    /\ (last.op = "done" /\ active # {} /\ ~ThresholdReached) => ~last.ret

C19_Witness ==
    /\ Classified /\ last.p.depth > max_depth /\ ~MatchesAvoid /\ ~MatchesFind
    /\ ~ViolatesRestrict /\ last.p.repeats < max_repeats
    /\ last.ret /\ last.p.id \in active

\* C13: a criterion that is no address, no collection of addresses and no
\* callable makes the constructor raise, before any path is classified; an
\* address becomes a singleton set, a collection its set of addresses and a
\* callable stays the predicate it is.
Converted(arg, criterion) ==
    /\ arg.type = "int" => criterion = SetCriterion({arg.int})
    /\ arg.type = "tuple" => criterion = SetCriterion(arg.elems)
    /\ arg.type \in {"function", "partial"} => criterion = FunctionCriterion(arg.fn)
    /\ arg.type \notin {"int", "tuple", "function", "partial"} =>
          (~constructed /\ log = <<>>)

C13_CriterionShapes ==
    /\ Converted(call.find, find)
    /\ Converted(call.avoid, avoid)
    /\ Converted(call.restrict, restrict)

\* C11: filter_path calls are atomic: when every worker's call has returned, the
\* counter and the lists are those of the calls run one after the other (every
\* increment is there, every path is in the one list of its disposition or in
\* the active list), and a read of the Explorer never falls inside a call, where
\* a path is counted but not yet filed.
Brought(t) == threads[t].p
Counted(k) ==
    Cardinality({t \in Workers :
        Brought(t).depth >= min_depth /\ k \in imark_set_of(Brought(t))})
Disposed(d) == {t \in Workers : Disposition(Brought(t)) = d}
FiledAs(list, d) == Ids(list) = Disposed(d) /\ Len(list) = Cardinality(Disposed(d))
Returned == \A t \in Workers : threads[t].pc = "returned"
SerialOutcome ==
    /\ \A k \in Keys : instruction_counter[k] = Counted(k)
    /\ FiledAs(found, "Found") /\ FiledAs(avoided, "Avoided")
    /\ FiledAs(deviating, "Deviating") /\ FiledAs(looping, "Looping")
    /\ active = {0} \cup Disposed("Active")
InsideCall == \E t \in Workers : threads[t].pc \in {"count", "store"}

Stopped == pending = <<>> /\ done
Places(i) ==
    {l \in {"active", "found", "avoided", "deviating", "looping"} :
        \/ l = "active" /\ i \in active
        \/ l = "found" /\ i \in Ids(found)
        \/ l = "avoided" /\ i \in Ids(avoided)
        \/ l = "deviating" /\ i \in Ids(deviating)
        \/ l = "looping" /\ i \in Ids(looping)}
Placed ==
    \A i \in 1..Len(log) :
        Cardinality(Places(i)) = IF paths[i].stepped THEN 0 ELSE 1

====
